---- MODULE Spec2Model ----
(***************************************************************************)
(* Ingestion pipeline of the property aggregator: normalization            *)
(* (ScraperService.processWithAI over AIProcessor), the per-source         *)
(* pipelines and the scrapeAll join (ScraperService), and batch            *)
(* reconciliation against the store (PropertyService.bulkCreateProperties  *)
(* over PropertyRepository).                                               *)
(*                                                                         *)
(* Records carry the fields the pipeline decides on.  Numbers with a       *)
(* fraction are kept as integers: confidence is in hundredths (0.3 = 30).  *)
(* String fields use "" for a missing/empty (falsy) value, number fields   *)
(* use 0, as the code's `a || b` chains treat them alike.                  *)
(***************************************************************************)
EXTENDS Integers, Sequences, FiniteSets, TLC

\* ------------------------------------------------------------------ bounds
MaxBatch == 2      \* longest batch posted to the bulk route
MaxFaults == 1     \* store operations that may raise in one behaviour
MaxLimit == 4      \* largest totalLimit given to scrapeAll
MaxCand == 2       \* longest candidate list given to processWithAI alone
MaxTries == 3      \* largest `tries` given to _withRetry

\* --------------------------------------------------------- small utilities
Min(a, b) == IF a < b THEN a ELSE b
Max(a, b) == IF a > b THEN a ELSE b

\* Math.ceil(a / b) for a >= 0, b > 0
Ceil(a, b) == (a + b - 1) \div b

\* JavaScript `a || b` on strings ("" is falsy) and on numbers (0 is falsy)
OrS(a, b) == IF a # "" THEN a ELSE b
OrN(a, b) == IF a # 0 THEN a ELSE b

\* `o || b` on an optional number: <<>> is a missing key (undefined), <<n>>
\* the number n
OrOpt(o, b) == IF o = <<>> THEN b ELSE OrN(o[1], b)

SeqOfMax(S, n) == UNION {[1..k -> S] : k \in 0..n}

\* the two reconcile runs of a behaviour
Runs == {1, 2}

\* ------------------------------------------------------------------ schema
\* source.name values the schema accepts
SourceNames == {"Housing.com", "OLX", "MagicBricks", "Manual", "Other"}

\* PropertyDto.createPropertySchema.validate(propertyData): the message of
\* the first violated rule, "" when the record is accepted.  Keys outside
\* the schema (aiProcessed) are rejected: validate is called without
\* allowUnknown.  The field origin is bookkeeping of the model and is not a
\* key of the JavaScript object.
createPropertySchema(p) ==
    IF p.title = "" THEN "title is required"
    ELSE IF p.price < 0 THEN "price must be >= 0"
    ELSE IF p.city = "" THEN "location.city is required"
    ELSE IF p.size < 1 THEN "area.size must be >= 1"
    ELSE IF p.name \notin SourceNames THEN "source.name must be one of"
    ELSE IF p.url = "" THEN "source.url is required"
    ELSE IF p.confidence < 0 \/ p.confidence > 100 THEN "confidence range"
    ELSE IF p.aiProcessed # "absent" THEN "aiProcessed is not allowed"
    ELSE ""

\* ------------------------------------------------------------------- store
\* variant: the query names the wrong path, so it never matches
existsBySourceUrlWrongPath(st, sourceUrl) ==
    \E i \in 1..Len(st) : st[i].name = sourceUrl

\* variant: the filter is dropped, so any stored document matches
existsBySourceUrlNoFilter(st, sourceUrl) ==
    Len(st) > 0

\* PropertyRepository.existsBySourceUrl: countDocuments({'source.url'}) > 0
existsBySourceUrl(st, sourceUrl) ==
    \E i \in 1..Len(st) : st[i].url = sourceUrl

\* variant: a unique index on (source.name, source.url) refuses the document
createUnique(st, value) ==
    IF \E i \in 1..Len(st) : st[i].name = value.name /\ st[i].url = value.url
    THEN st ELSE Append(st, value)

\* variant: an upsert, the new document takes the place of the oldest one
createUpsert(st, value) ==
    IF st = <<>> THEN <<value>> ELSE [st EXCEPT ![1] = value]

\* variant: the document is built but never saved
createNotSaved(st, value) == st

\* PropertyRepository.create: new Property(data).save()
create(st, value) == Append(st, value)

\* the fingerprint of the spec: (source.name, source.url)
Fingerprint(p) == <<p.name, p.url>>

HoldsFingerprint(st, p) ==
    \E i \in 1..Len(st) : Fingerprint(st[i]) = Fingerprint(p)

CountFingerprint(st, p) ==
    Cardinality({i \in 1..Len(st) : Fingerprint(st[i]) = Fingerprint(p)})

\* ----------------------------------------------------------- normalization
\* What the text-understanding service does for one request:
\*   "error"   generateContent rejects (network, quota, bad key)
\*   "nojson"  the text holds no {...} object
\*   "badjson" the {...} text does not parse
\*   "ok"      parsed object `data`; srcName/srcUrl are source fields the
\*             reply may carry on its own
NoData == [title |-> "", price |-> 0, city |-> "", size |-> 0,
           confidence |-> <<>>, srcName |-> "", srcUrl |-> ""]

\* the confidence key of a parsed reply, in hundredths: missing, 0, below
\* 0.1, within the range, above 1
ReplyConfidences == {<<>>, <<0>>, <<5>>, <<80>>, <<150>>}

ReplyData ==
    {[title |-> t, price |-> 0, city |-> c, size |-> 0, confidence |-> k,
      srcName |-> src[1], srcUrl |-> src[2]] :
        t \in {"", "AI title"}, c \in {"", "AI city"},
        k \in ReplyConfidences,
        src \in {<<"", "">>, <<"Other", "http://reply">>}}

Replies ==
    {[kind |-> k, data |-> NoData] : k \in {"error", "nojson", "badjson"}}
    \cup {[kind |-> "ok", data |-> d] : d \in ReplyData}

\* AIProcessor.fallbackProcessing(rawData).  rawData is the candidate, or {}
\* when called from parseAIResponse.  It reads the flat keys rawData.city,
\* rawData.area: a candidate keeps its city under location.city and its
\* size under area.size, so both come out as the defaults.
fallbackProcessing(hasRaw, raw) ==
    [title |-> IF hasRaw THEN OrS(raw.title, "Property") ELSE "Property",
     price |-> IF hasRaw THEN raw.price ELSE 0,
     city |-> "Unknown City",
     size |-> 0,
     confidence |-> 30,
     raised |-> FALSE]

\* AIProcessor.validateAndCleanData(data): the cleaned object has no source
\* key, whatever data carries.
validateAndCleanData(data) ==
    [title |-> OrS(data.title, "Unknown Property"),
     price |-> data.price,
     city |-> OrS(data.city, "Unknown City"),
     size |-> OrN(data.size, 0),
     confidence |-> Max(10, Min(100, OrOpt(data.confidence, 50))),
     raised |-> FALSE]

\* AIProcessor.parseAIResponse(text)
parseAIResponse(reply) ==
    IF reply.kind = "ok" THEN validateAndCleanData(reply.data)
    ELSE fallbackProcessing(FALSE, NoData)

\* AIProcessor.processPropertyData(rawData): every failure is caught inside
\* and answered with fallbackProcessing, so the call never raises.
processPropertyData(raw, reply) ==
    IF reply.kind = "error" THEN fallbackProcessing(TRUE, raw)
    ELSE parseAIResponse(reply)

\* enhancedProperty of ScraperService.processWithAI: the merge of the
\* cleaned reply into the candidate; source is the candidate's
MergeFields(raw, ai) ==
    [raw EXCEPT
        !.title = OrS(ai.title, raw.title),
        !.price = OrN(ai.price, raw.price),
        !.city = OrS(ai.city, OrS(raw.city, "Unknown City")),
        !.size = OrN(ai.size, OrN(raw.size, 0)),
        !.name = raw.name,
        !.url = raw.url,
        !.scrapedAt = raw.scrapedAt,
        !.aiProcessed = "true",
        !.confidence = OrN(ai.confidence, 50)]

\* fallbackProperty of the catch block of processWithAI
FallbackProperty(raw) ==
    [raw EXCEPT !.aiProcessed = "false", !.confidence = 30]

\* variant: the merge lets the reply's own source fields win
EnhanceOneReplySource(raw, reply) ==
    LET ai == processPropertyData(raw, reply)
        merged == IF ai.raised THEN FallbackProperty(raw)
                  ELSE MergeFields(raw, ai)
    IN  IF reply.kind = "ok"
        THEN [merged EXCEPT !.name = OrS(reply.data.srcName, raw.name),
                            !.url = OrS(reply.data.srcUrl, raw.url)]
        ELSE merged

\* One iteration of the loop of ScraperService.processWithAI: the merge, or
\* the catch block when processPropertyData raised.
EnhanceOne(raw, reply) ==
    LET ai == processPropertyData(raw, reply) IN
    IF ai.raised THEN FallbackProperty(raw) ELSE MergeFields(raw, ai)

\* ScraperService.processWithAI(rawProperties) with the service's reply to
\* each request
processWithAI(raws, replies) ==
    [i \in 1..Len(raws) |-> EnhanceOne(raws[i], replies[i])]

\* --------------------------------------------------------------- the state
VARIABLES
    store,       \* the persisted property documents, in insertion order
    batch,       \* per reconcile run: propertiesData
    idx,         \* per run: position of the for-of loop (1-based)
    pc,          \* per run: "idle", "loop", "done", "threw"
    results,     \* per run: results.created / .errors / .duplicates
    ret,         \* per run: the returned stats, once pc = "done"
    store0,      \* per run: the store as it was when the run started
    faulted,     \* per run: a store operation raised during the run
    faultsLeft,  \* store operations that may still raise
    scPc,        \* scrapeAll: "off", "running", "reconciling", "returned", "threw"
    limit,       \* scrapeAll: the limit argument
    settled,     \* scrapeAll: per source, the settled promise of its pipeline
    acquired,    \* scrapeAll: per source, what acquisition+extraction gave
    scraped,     \* scrapeAll: allProperties.length
    scErrors,    \* scrapeAll: the per-source error entries
    scResult,    \* scrapeAll: the response returned to the caller
    nIn,         \* processWithAI alone: rawProperties
    nReplies,    \* processWithAI alone: the service's replies so far
    nOut,        \* processWithAI alone: processedProperties so far
    txt,         \* text extraction: the text given to the extractors
    txtPrice,    \* text extraction: what _extractPrice returned
    txtBhk,      \* text extraction: what _extractBHK returned
    txtClean,    \* text extraction: what cleanPrice returned
    txtNum,      \* text extraction: what cleanNumber returned
    clearResult, \* clearScrapedData: "none", "success", "threw"
    clrStore,    \* clearScrapedData: the store as the call left it
    rtMode,      \* _withRetry: "off", "fn" (any fn), "pipeline" (a scraper)
    rtTries,     \* _withRetry: the argument tries
    rtBase,      \* _withRetry: the argument baseTimeout, in ms
    rtPc,        \* _withRetry: "call", "sleep", "returned", "raised"
    rtAttempt,   \* _withRetry: the local attempt
    rtCalls,     \* _withRetry: the outcome of each invocation of fn so far
    rtDelays,    \* _withRetry: the delays slept so far, in ms
    rtResult,    \* _withRetry: what it returned or raised
    rtSource,    \* pipeline of the retry variant: the source
    rtLimit,     \* pipeline of the retry variant: the limit argument
    rtPipe,      \* pipeline: "none", "real", "synthetic", "catch"
    rtProps,     \* pipeline: the properties it returned
    enrich,      \* scrapeAll seen from the enrichment service: its requests
    fstream,     \* fetchStream: the promise and the response stream
    br,          \* the shared browser: this.browser and the initBrowser calls
    rf           \* _scrapeHousingWithPuppeteer: one rendered fetch

recVars == <<store, batch, idx, pc, results, ret, store0, faulted, faultsLeft>>
scVars == <<scPc, limit, settled, acquired, scraped, scErrors, scResult>>
nVars == <<nIn, nReplies, nOut>>
txtVars == <<txt, txtPrice, txtBhk, txtClean, txtNum>>
clrVars == <<clearResult, clrStore>>
rtVars == <<rtMode, rtTries, rtBase, rtPc, rtAttempt, rtCalls, rtDelays,
            rtResult, rtSource, rtLimit, rtPipe, rtProps>>
ioVars == <<enrich, fstream, br, rf>>
extVars == <<txtVars, clrVars, rtVars, ioVars>>
vars == <<recVars, scVars, nVars, extVars>>

\* ------------------------------------------------------------ record pools
BaseRecord ==
    [title |-> "2 BHK Flat", price |-> 5000000, city |-> "Mumbai",
     size |-> 900, name |-> "Manual", url |-> "http://u1",
     scrapedAt |-> "t0", aiProcessed |-> "absent", confidence |-> 80,
     origin |-> "posted"]

\* records a client posts to POST /api/properties/bulk
BulkPool ==
    {[BaseRecord EXCEPT !.name = n, !.url = "https://housing.com/p/1"] :
        n \in {"Housing.com", "OLX"}}
    \cup {[BaseRecord EXCEPT !.name = "Housing.com",
                             !.url = "https://magicbricks.com", !.size = z] :
            z \in {0, 900}}

\* stores a behaviour may start from; no two documents share a fingerprint
InitStores ==
    {<<>>,
     <<[BaseRecord EXCEPT !.name = "OLX", !.url = "https://housing.com/p/1"]>>}

NoResults == [created |-> <<>>, errors |-> <<>>, duplicates |-> <<>>]
NoStats == [total |-> 0, created |-> 0, errors |-> 0, duplicates |-> 0]

\* variant: duplicates are counted among the errors as well
BulkReturnMiscount(propertiesData, res) ==
    [total |-> Len(propertiesData),
     created |-> Len(res.created),
     errors |-> Len(res.errors) + Len(res.duplicates),
     duplicates |-> Len(res.duplicates)]

\* the return statement of bulkCreateProperties
BulkReturn(propertiesData, res) ==
    [total |-> Len(propertiesData),
     created |-> Len(res.created),
     errors |-> Len(res.errors),
     duplicates |-> Len(res.duplicates)]

Finished(r) == pc[r] \in {"done", "threw"}

\* ---------------------------------------------------------- reconciliation
\* PropertyService.bulkCreateProperties(propertiesData), entry: the array
\* check, which throws on an empty list, and the empty result lists
bulkCreateProperties(r, propertiesData) ==
    /\ batch' = [batch EXCEPT ![r] = propertiesData]
    /\ idx' = [idx EXCEPT ![r] = 1]
    /\ results' = [results EXCEPT ![r] = NoResults]
    /\ ret' = [ret EXCEPT ![r] = NoStats]
    /\ store0' = [store0 EXCEPT ![r] = store]
    /\ faulted' = [faulted EXCEPT ![r] = FALSE]
    /\ pc' = [pc EXCEPT ![r] =
                IF Len(propertiesData) = 0 THEN "threw" ELSE "loop"]

\* the loop moves to the next record, or returns after the last one
Advance(r, res) ==
    /\ results' = [results EXCEPT ![r] = res]
    /\ idx' = [idx EXCEPT ![r] = idx[r] + 1]
    /\ IF idx[r] = Len(batch[r])
       THEN /\ pc' = [pc EXCEPT ![r] = "done"]
            /\ ret' = [ret EXCEPT ![r] = BulkReturn(batch[r], res)]
       ELSE /\ UNCHANGED <<pc, ret>>

\* variant: no try/catch around one record, the failure leaves the loop
RecordErrorAbort(r, p, msg) ==
    /\ pc' = [pc EXCEPT ![r] = "threw"]
    /\ UNCHANGED <<results, idx, ret>>

\* results.errors.push({data, error}) and on to the next record
RecordError(r, p, msg) ==
    Advance(r, [results[r] EXCEPT !.errors =
                    Append(@, [data |-> p, error |-> msg])])

\* POST /api/properties/bulk: runs do not overlap, run 2 follows run 1
BulkStart(r) ==
    /\ scPc = "off"
    /\ pc[r] = "idle"
    /\ \A q \in Runs : q < r => Finished(q)
    /\ \E b \in SeqOfMax(BulkPool, MaxBatch) : bulkCreateProperties(r, b)
    /\ UNCHANGED <<store, faultsLeft, scVars, nVars, extVars>>

\* one iteration of the for-of loop: existence check, validation, insert,
\* and the catch block around them; exactly one of the three lists grows
ReconcileRecord(r) ==
    /\ pc[r] = "loop"
    /\ LET p == batch[r][idx[r]]
           exists == existsBySourceUrl(store, p.url)
           error == createPropertySchema(p)
       IN
       \/ /\ faultsLeft > 0       \* existsBySourceUrl raises
          /\ faultsLeft' = faultsLeft - 1
          /\ faulted' = [faulted EXCEPT ![r] = TRUE]
          /\ RecordError(r, p, "Failed to check property existence")
          /\ UNCHANGED store
       \/ /\ exists
          /\ Advance(r, [results[r] EXCEPT !.duplicates =
                 Append(@, [data |-> p,
                            reason |-> "Property with this source URL already exists"])])
          /\ UNCHANGED <<store, faultsLeft, faulted>>
       \/ /\ ~exists
          /\ error # ""
          /\ RecordError(r, p, error)
          /\ UNCHANGED <<store, faultsLeft, faulted>>
       \/ /\ ~exists
          /\ error = ""
          /\ faultsLeft > 0       \* PropertyRepository.create raises
          /\ faultsLeft' = faultsLeft - 1
          /\ faulted' = [faulted EXCEPT ![r] = TRUE]
          /\ RecordError(r, p, "Failed to create property")
          /\ UNCHANGED store
       \/ /\ ~exists
          /\ error = ""
          /\ store' = create(store, p)
          /\ Advance(r, [results[r] EXCEPT !.created = Append(@, p)])
          /\ UNCHANGED <<faultsLeft, faulted>>
    /\ UNCHANGED <<batch, store0, scVars, nVars, extVars>>

\* --------------------------------------------------------- source pipelines
\* the order of the promises given to Promise.allSettled
Sources == <<"Housing.com", "OLX", "MagicBricks">>
SourceIds == 1..3

TheCity == "Mumbai"

\* links of the listings found on a source's result page, in page order
RealLinks ==
    <<<<"https://housing.com/p/1", "https://housing.com/p/2",
        "https://housing.com/p/3">>,
      <<"https://www.olx.in/item/1", "https://www.olx.in/item/2",
        "https://www.olx.in/item/3">>,
      <<"https://www.magicbricks.com/1", "https://www.magicbricks.com/2",
        "https://www.magicbricks.com/3">>>>

\* `https://housing.com/property-${city}-${i + 1}-${uuidv4()}`: uuidv4 gives
\* a value not given before, so the link differs for every i
HousingUuidLinks ==
    <<"https://housing.com/property-mumbai-1-uuid-a",
      "https://housing.com/property-mumbai-2-uuid-b",
      "https://housing.com/property-mumbai-3-uuid-c">>

OLXUuidLinks ==
    <<"https://olx.in/property-mumbai-1-uuid-d",
      "https://olx.in/property-mumbai-2-uuid-e",
      "https://olx.in/property-mumbai-3-uuid-f">>

\* `prop.link || https://<site>/property-${city}-${index + 1}`
DefaultLinks ==
    <<<<"https://housing.com/property-mumbai-1",
        "https://housing.com/property-mumbai-2",
        "https://housing.com/property-mumbai-3">>,
      <<"https://olx.in/property-mumbai-1",
        "https://olx.in/property-mumbai-2",
        "https://olx.in/property-mumbai-3">>>>

\* ScraperService._formatHousingProperty(prop, city, index), index 0-based
_formatHousingProperty(prop, city, index) ==
    [title |-> prop.title, price |-> 5000000, city |-> city, size |-> 900,
     name |-> "Housing.com",
     url |-> OrS(prop.link, DefaultLinks[1][index + 1]),
     scrapedAt |-> "now", aiProcessed |-> "absent", confidence |-> 80,
     origin |-> prop.origin]

\* ScraperService._formatOLXProperty(prop, city, index)
_formatOLXProperty(prop, city, index) ==
    [title |-> prop.title, price |-> 5000000, city |-> city, size |-> 900,
     name |-> "OLX",
     url |-> OrS(prop.link, DefaultLinks[2][index + 1]),
     scrapedAt |-> "now", aiProcessed |-> "absent", confidence |-> 70,
     origin |-> prop.origin]

\* ScraperService._formatMagicBricksProperty(prop, city, index)
_formatMagicBricksProperty(prop, city, index) ==
    [title |-> prop.title, price |-> 5000000, city |-> city, size |-> 900,
     name |-> "MagicBricks",
     url |-> prop.link,
     scrapedAt |-> "now", aiProcessed |-> "absent", confidence |-> 80,
     origin |-> prop.origin]

formatProperty(s, prop, city, index) ==
    CASE s = 1 -> _formatHousingProperty(prop, city, index)
      [] s = 2 -> _formatOLXProperty(prop, city, index)
      [] s = 3 -> _formatMagicBricksProperty(prop, city, index)

\* ScraperService._generateHousingFallbackData(city, limit)
_generateHousingFallbackData(city, lim) ==
    [i \in 1..lim |-> _formatHousingProperty(
        [title |-> "2 BHK Apartment for Sale", link |-> HousingUuidLinks[i],
         origin |-> "synthetic"], city, i - 1)]

\* ScraperService._generateOLXFallbackData(city, limit)
_generateOLXFallbackData(city, lim) ==
    [i \in 1..lim |-> _formatOLXProperty(
        [title |-> "2 BHK Flat for Sale", link |-> OLXUuidLinks[i],
         origin |-> "synthetic"], city, i - 1)]

\* ScraperService._generateMagicBricksFallbackData(city, limit): the link is
\* the same literal for every record
_generateMagicBricksFallbackData(city, lim) ==
    [i \in 1..lim |-> _formatMagicBricksProperty(
        [title |-> "MagicBricks Property", link |-> "https://magicbricks.com",
         origin |-> "synthetic"], city, i - 1)]

\* variant: the loop of the generator stops one record early
generateFallbackDataShort(s, city, lim) ==
    CASE s = 1 -> _generateHousingFallbackData(city, Max(lim - 1, 0))
      [] s = 2 -> _generateOLXFallbackData(city, Max(lim - 1, 0))
      [] s = 3 -> _generateMagicBricksFallbackData(city, Max(lim - 1, 0))

generateFallbackData(s, city, lim) ==
    CASE s = 1 -> _generateHousingFallbackData(city, lim)
      [] s = 2 -> _generateOLXFallbackData(city, lim)
      [] s = 3 -> _generateMagicBricksFallbackData(city, lim)

\* _scrapeHousingWithPuppeteer / _scrapeOLXWithCheerio /
\* _scrapeMagicBricksWithCheerio when the page gave n listings
realProperties(s, city, n) ==
    [i \in 1..n |-> formatProperty(s,
        [title |-> "Listed flat", link |-> RealLinks[s][i],
         origin |-> "real"], city, i - 1)]

\* what acquisition+extraction of one source does: n listings (n >= 1), no
\* listing (also after an error the scraper caught itself), or an exception
\* that leaves the scraper
Acquisitions(lim) ==
    {[kind |-> "real", n |-> n] : n \in 1..lim}
    \cup {[kind |-> "empty", n |-> 0], [kind |-> "raise", n |-> 0]}

Fulfilled(props) == [status |-> "fulfilled", properties |-> props, reason |-> ""]
Rejected(msg) == [status |-> "rejected", properties |-> <<>>, reason |-> msg]
Pending == [status |-> "pending", properties |-> <<>>, reason |-> ""]

Uniform(n, reply) == [i \in 1..n |-> reply]

\* scrapeHousingCom / scrapeOLX / scrapeMagicBricks (city, limit): the try
\* block, and the catch block that generates fallback data again.
\* genFaulty: the body of the loop of _generate...FallbackData raises in
\* this pipeline (city.toLowerCase() on a city that is no string; with
\* lim = 0 the body does not run).  Nothing catches that in the catch
\* block, so the promise rejects; a pipeline rejects in no other way.
scrapeSource(s, city, lim, acq, genFaulty, reply) ==
    LET genRaises == genFaulty /\ lim >= 1
        catchBlock ==
            IF genRaises
            THEN Rejected("city.toLowerCase is not a function")
            ELSE Fulfilled(processWithAI(generateFallbackData(s, city, lim),
                                         Uniform(lim, reply)))
        scrapedProps ==
            IF acq.kind = "real" THEN realProperties(s, city, acq.n) ELSE <<>>
    IN  IF acq.kind = "raise" THEN catchBlock
        ELSE IF Len(scrapedProps) = 0
             THEN IF genRaises THEN catchBlock
                  ELSE Fulfilled(processWithAI(
                           generateFallbackData(s, city, lim),
                           Uniform(lim, reply)))
             ELSE Fulfilled(processWithAI(scrapedProps,
                                          Uniform(Len(scrapedProps), reply)))

\* --------------------------------------------------------------- scrapeAll
\* replies the service gives during a scrapeAll run; one kind of reply per
\* call of processWithAI
ScrapeReplies ==
    {r \in Replies :
        \/ r.kind = "error"
        \/ /\ r.kind = "ok"
           /\ r.data.title = "AI title" /\ r.data.city = ""
           /\ r.data.confidence = <<80>> /\ r.data.srcName = ""}

\* the reconcile run that scrapeAll awaits
ScrapeRun == 1

RECURSIVE Flatten(_)
Flatten(ss) == IF ss = <<>> THEN <<>> ELSE Head(ss) \o Flatten(Tail(ss))

\* variant: Promise.all, the first rejection discards every result
AllPropertiesFailFast(st) ==
    IF \E i \in SourceIds : st[i].status = "rejected" THEN <<>>
    ELSE Flatten([i \in SourceIds |-> st[i].properties])

\* results.forEach of scrapeAll: allProperties and errors
AllProperties(st) ==
    Flatten([i \in SourceIds |->
        IF st[i].status = "fulfilled" THEN st[i].properties ELSE <<>>])

SourceErrors(st) ==
    Flatten([i \in SourceIds |->
        IF st[i].status = "fulfilled" THEN <<>>
        ELSE <<[source |-> Sources[i], error |-> st[i].reason]>>])

\* PropertyDto.formatScraperResponse
formatScraperResponse(result) ==
    [success |-> result.success,
     stats |-> [scraped |-> result.stats.scraped,
                saved |-> result.stats.saved,
                errors |-> result.stats.errors,
                duplicates |-> result.stats.duplicates],
     properties |-> result.properties,
     errors |-> result.errors]

NoResponse ==
    [success |-> FALSE,
     stats |-> [scraped |-> 0, saved |-> 0, errors |-> 0, duplicates |-> 0],
     properties |-> <<>>, errors |-> <<>>]

\* scrapeAll(city, limit) is called and starts the three pipelines
ScrapeAllStart ==
    /\ scPc = "off"
    /\ \A r \in Runs : pc[r] = "idle"
    /\ \E lim \in 0..MaxLimit : limit' = lim
    /\ scPc' = "running"
    /\ UNCHANGED <<recVars, settled, acquired, scraped, scErrors, scResult, nVars, extVars>>

\* one of the three pipelines started by scrapeAll settles
SourceSettle(s) ==
    /\ scPc = "running"
    /\ settled[s].status = "pending"
    /\ \E acq \in Acquisitions(Ceil(limit, 3)), genRaises \in BOOLEAN,
          reply \in ScrapeReplies :
        /\ settled' = [settled EXCEPT ![s] =
               scrapeSource(s, TheCity, Ceil(limit, 3), acq, genRaises, reply)]
        /\ acquired' = [acquired EXCEPT ![s] = acq]
    /\ UNCHANGED <<recVars, scPc, limit, scraped, scErrors, scResult, nVars, extVars>>

\* Promise.allSettled resolves: collect, normalize the combined list and
\* call bulkCreateProperties, whose throw on an empty list leaves scrapeAll
\* through its catch block as a new Error
Join ==
    /\ scPc = "running"
    /\ \A s \in SourceIds : settled[s].status # "pending"
    /\ \E reply \in ScrapeReplies :
        LET allProperties == AllProperties(settled)
            aiProcessedProperties ==
                processWithAI(allProperties, Uniform(Len(allProperties), reply))
        IN  /\ scraped' = Len(allProperties)
            /\ scErrors' = SourceErrors(settled)
            /\ bulkCreateProperties(ScrapeRun, aiProcessedProperties)
            /\ scPc' = IF Len(aiProcessedProperties) = 0
                       THEN "threw" ELSE "reconciling"
    /\ UNCHANGED <<store, faultsLeft, limit, settled, acquired, scResult, nVars, extVars>>

\* bulkCreateProperties returned: scrapeAll builds its response
ScrapeReturn ==
    /\ scPc = "reconciling"
    /\ pc[ScrapeRun] = "done"
    /\ scResult' = formatScraperResponse(
           [success |-> TRUE,
            stats |-> [scraped |-> scraped,
                       saved |-> ret[ScrapeRun].created,
                       errors |-> ret[ScrapeRun].errors,
                       duplicates |-> ret[ScrapeRun].duplicates],
            properties |-> results[ScrapeRun].created,
            errors |-> scErrors \o results[ScrapeRun].errors])
    /\ scPc' = "returned"
    /\ UNCHANGED <<recVars, limit, settled, acquired, scraped, scErrors, nVars, extVars>>

\* ------------------------------------------------- processWithAI on its own
CandidatePool ==
    {[BaseRecord EXCEPT !.title = t, !.name = n, !.url = u,
                        !.origin = "real"] :
        t \in {"", "2 BHK Flat"},
        n \in {"OLX"}, u \in {"http://u1"}}
    \cup {[BaseRecord EXCEPT !.name = "Housing.com", !.url = "http://u2",
                             !.scrapedAt = "t1", !.origin = "real"]}

\* one iteration of the loop of processWithAI
ProcessNext ==
    /\ Len(nOut) < Len(nIn)
    /\ \E reply \in Replies :
        /\ nReplies' = Append(nReplies, reply)
        /\ nOut' = Append(nOut, EnhanceOne(nIn[Len(nOut) + 1], reply))
    /\ UNCHANGED <<recVars, scVars, nIn, extVars>>

\* ---------------------------------------------------------- text extraction
\* A text is the sequence of its characters, each a one-character string.
\* Rupee stands for the one character U+20B9 (the rupee sign).
Rupee == "U+20B9"

DigitChars == <<"0", "1", "2", "3", "4", "5", "6", "7", "8", "9">>
DigitSet == {DigitChars[d] : d \in 1..10}
DigitValue(c) == (CHOOSE d \in 1..10 : DigitChars[d] = c) - 1

UpperCase == <<"A", "B", "C", "D", "E", "F", "G", "H", "I", "J", "K", "L", "M",
               "N", "O", "P", "Q", "R", "S", "T", "U", "V", "W", "X", "Y", "Z">>
LowerCase == <<"a", "b", "c", "d", "e", "f", "g", "h", "i", "j", "k", "l", "m",
               "n", "o", "p", "q", "r", "s", "t", "u", "v", "w", "x", "y", "z">>

\* String.prototype.toLowerCase
toLowerCase(s) ==
    [i \in 1..Len(s) |->
        IF \E k \in 1..26 : UpperCase[k] = s[i]
        THEN LowerCase[CHOOSE k \in 1..26 : UpperCase[k] = s[i]]
        ELSE s[i]]

\* String.prototype.includes
includes(s, sub) ==
    \E i \in 1..(Len(s) - Len(sub) + 1) : SubSeq(s, i, i + Len(sub) - 1) = sub

\* the last position of the longest run of characters of C that starts at
\* position i (i - 1 when s[i] is not in C): a greedy `[C]*` applied at i
RunEnd(s, i, C) ==
    CHOOSE j \in (i - 1)..Len(s) :
        /\ \A k \in i..j : s[k] \in C
        /\ j = Len(s) \/ s[j + 1] \notin C

\* s.match(/[C]+/): the leftmost longest run of characters of C
NoMatch == [found |-> FALSE, text |-> <<>>]
matchRun(s, C) ==
    IF \E i \in 1..Len(s) : s[i] \in C
    THEN LET i == CHOOSE k \in 1..Len(s) :
                      s[k] \in C /\ \A m \in 1..(k - 1) : s[m] \notin C
         IN  [found |-> TRUE, text |-> SubSeq(s, i, RunEnd(s, i, C))]
    ELSE NoMatch

\* the value of a string of decimal digits
RECURSIVE DigitsValue(_)
DigitsValue(s) ==
    IF s = <<>> THEN 0
    ELSE DigitsValue(SubSeq(s, 1, Len(s) - 1)) * 10 + DigitValue(s[Len(s)])

\* NaN, which no arithmetic turns into a number again and which is falsy
NaN == -1
Times(a, b) == IF a = NaN THEN NaN ELSE a * b

\* parseInt(s) on a string without sign or leading blanks: the value of the
\* leading digits, NaN when s does not start with a digit
parseInt(s) ==
    IF RunEnd(s, 1, DigitSet) = 0 THEN NaN
    ELSE DigitsValue(SubSeq(s, 1, RunEnd(s, 1, DigitSet)))

\* match[0].replace(/,/g, '')
RemoveCommas(s) == SelectSeq(s, LAMBDA c : c # ",")

\* what an extractor returns: a number, or (random) the value of
\* Math.floor(Math.random() * 50000000) + 5000000, any of 5000000..54999999
Exactly(n) == [random |-> FALSE, value |-> n]
RandomPrice == [random |-> TRUE, value |-> 0]

\* ScraperService._extractPrice(priceStr) for a string (prop.price of a
\* listing is text, or undefined, which is falsy like the empty text)
_extractPrice(priceStr) ==
    LET match == matchRun(priceStr, DigitSet \cup {","})
        number == parseInt(RemoveCommas(match.text))
        lower == toLowerCase(priceStr)
    IN  IF priceStr = <<>> THEN RandomPrice
        ELSE IF ~match.found THEN RandomPrice
        ELSE IF includes(lower, <<"c", "r">>)
             THEN Exactly(Times(number, 10000000))
        ELSE IF includes(lower, <<"l", "a", "k", "h">>)
             THEN Exactly(Times(number, 100000))
        ELSE IF includes(lower, <<"k">>)
             THEN Exactly(Times(number, 1000))
        ELSE IF /\ includes(priceStr, <<Rupee>>)
                /\ ~includes(lower, <<"c", "r">>)
                /\ ~includes(lower, <<"k">>)
             THEN Exactly(Times(number, 100000))
        ELSE IF number = NaN \/ number = 0 THEN RandomPrice
        ELSE Exactly(number)

\* AIProcessor.cleanPrice(price) for a string: no unit is looked at
cleanPrice(price) ==
    LET match == matchRun(price, DigitSet \cup {","}) IN
    IF match.found THEN parseInt(RemoveCommas(match.text)) ELSE 0

\* AIProcessor.cleanNumber(num) for a string: <<n>>, or <<>> for null
cleanNumber(num) ==
    LET match == matchRun(num, DigitSet) IN
    IF match.found THEN <<parseInt(match.text)>> ELSE <<>>

\* the alternatives of (bhk|bedroom|bed), lower-cased by the flag i
BedMarkers ==
    {<<"b", "h", "k">>, <<"b", "e", "d", "r", "o", "o", "m">>,
     <<"b", "e", "d">>}

startsWithAt(s, i, sub) ==
    /\ i + Len(sub) - 1 <= Len(s)
    /\ SubSeq(s, i, i + Len(sub) - 1) = sub

\* /(\d+)\s*(bhk|bedroom|bed)/i matches with its first character at i
BhkMatchAt(s, i) ==
    /\ s[i] \in DigitSet
    /\ LET e == RunEnd(s, i, DigitSet)
           w == RunEnd(s, e + 1, {" "})
       IN  \E m \in BedMarkers : startsWithAt(toLowerCase(s), w + 1, m)

\* ScraperService._extractBHK(text): the values the call can return;
\* Math.floor(Math.random() * 3) + 1 is any of 1, 2, 3
_extractBHK(text) ==
    LET starts == {i \in 1..Len(text) : BhkMatchAt(text, i)} IN
    IF text = <<>> THEN 1..3
    ELSE IF starts = {} THEN 1..3
    ELSE LET i == CHOOSE k \in starts : \A m \in starts : k <= m
         IN  {DigitsValue(SubSeq(text, i, RunEnd(text, i, DigitSet)))}

\* price texts of listings: [rupee sign] number [fraction] [unit]
PriceUnits ==
    {<<>>, <<" ", "C", "r">>, <<" ", "l", "a", "k", "h", "s">>, <<"L">>,
     <<"k">>, <<" ", "L", "a", "k", "h">>}

PriceTexts ==
    {pre \o num \o frac \o unit :
        pre \in {<<>>, <<Rupee>>},
        num \in {<<"1">>, <<"2", "5">>, <<"5", "0">>},
        frac \in {<<>>, <<".", "2">>},
        unit \in PriceUnits}
    \cup {pre \o <<"1", ",", "2", "0", "0">> \o unit :
            pre \in {<<>>, <<Rupee>>}, unit \in {<<>>, <<"k">>}}
    \cup {<<"5", "0", "0", "0", "0", "0", "0">>,
          <<"o", "n", " ", "r", "e", "q", "u", "e", "s", "t">>,
          <<>>}

\* titles of listings
BedroomTexts ==
    {<<"2", " ", "B", "H", "K", " ", "a", "p", "a", "r", "t", "m", "e", "n", "t">>,
     <<"S", "t", "u", "d", "i", "o", " ", "a", "p", "a", "r", "t", "m", "e", "n", "t">>,
     <<"3", "b", "e", "d">>,
     <<"1", "2", " ", " ", "B", "e", "d", "r", "o", "o", "m">>,
     <<"F", "l", "o", "o", "r", " ", "5", ",", " ", "2", "B", "H", "K">>,
     <<"2", " ", "b", "a", "t", "h">>}

Texts == PriceTexts \cup BedroomTexts

\* _extractPrice(prop.price) in a formatter
ExtractPrice ==
    /\ txtPrice = <<>>
    /\ txtPrice' = <<_extractPrice(txt)>>
    /\ UNCHANGED <<recVars, scVars, nVars, ioVars, txt, txtBhk, txtClean, txtNum,
                   clrVars, rtVars>>

\* _extractBHK(prop.title + ...) in a formatter
ExtractBHK ==
    /\ txtBhk = <<>>
    /\ \E v \in _extractBHK(txt) : txtBhk' = <<v>>
    /\ UNCHANGED <<recVars, scVars, nVars, ioVars, txt, txtPrice, txtClean, txtNum,
                   clrVars, rtVars>>

\* cleanPrice(data.price) in validateAndCleanData
CleanPrice ==
    /\ txtClean = <<>>
    /\ txtClean' = <<cleanPrice(txt)>>
    /\ UNCHANGED <<recVars, scVars, nVars, ioVars, txt, txtPrice, txtBhk, txtNum,
                   clrVars, rtVars>>

\* cleanNumber(data.bhk) in validateAndCleanData
CleanNumber ==
    /\ txtNum = <<>>
    /\ txtNum' = <<cleanNumber(txt)>>
    /\ UNCHANGED <<recVars, scVars, nVars, ioVars, txt, txtPrice, txtBhk, txtClean,
                   clrVars, rtVars>>

\* ------------------------------------------------------- clearScrapedData
\* ScraperService.clearScrapedData() of services/ScraperService.js, behind
\* DELETE /api/scraper/clear: no repository call is made, the call reports
\* success
ClearScrapedData ==
    /\ clearResult = "none"
    /\ clearResult' = "success"
    /\ clrStore' = store
    /\ UNCHANGED <<recVars, scVars, nVars, ioVars, txtVars, rtVars>>

\* clearScrapedData() of the retry variant of the service: it calls
\* PropertyRepository.deleteAll, which the repository does not define, so
\* the call raises a TypeError that the catch block rethrows
ClearScrapedDataVariant ==
    /\ clearResult = "none"
    /\ clearResult' = "threw"
    /\ clrStore' = store
    /\ UNCHANGED <<recVars, scVars, nVars, ioVars, txtVars, rtVars>>

\* a record is posted to the bulk route after the clear operation
BulkAfterClear(r) ==
    /\ clearResult # "none"
    /\ BulkStart(r)

\* ------------------------------------- _withRetry and the pipelines on it
\* (the ScraperService that wraps its scrapers in _withRetry)
Undefined == [kind |-> "undefined", n |-> 0, err |-> 0, net |-> "none"]
Returns(net, n) == [kind |-> "value", n |-> n, err |-> 0, net |-> net]
Raises(k) == [kind |-> "raise", n |-> 0, err |-> k, net |-> "none"]

\* baseTimeout: 8000 from the pipelines, 10000 by default
BaseTimeouts == {8000, 10000}

\* what the network and the page give to one run of a scraper
Fetches(lim) ==
    {[net |-> "fail", n |-> 0], [net |-> "empty", n |-> 0]}
    \cup {[net |-> "found", n |-> n] : n \in 1..lim}

\* _scrapeHousingWithPuppeteer / _scrapeOLXWithCheerio /
\* _scrapeMagicBricksWithCheerio: the whole body is in a try block whose
\* catch block returns [], so a failed fetch comes out as an empty list
scrapeWithCatch(fetch) ==
    IF fetch.net = "found" THEN Returns("found", fetch.n)
    ELSE Returns(fetch.net, 0)

\* what one invocation of fn can do: any function returns a list of n
\* candidates or raises an error (numbered by the invocation); a scraper
\* does what scrapeWithCatch does
FnOutcomes(mode, lim, k) ==
    IF mode = "pipeline" THEN {scrapeWithCatch(f) : f \in Fetches(lim)}
    ELSE {Returns("none", n) : n \in 0..lim} \cup {Raises(k)}

\* variant: an empty list is treated like an exception
CaughtOrEmpty(outcome) == outcome.kind = "raise" \/ outcome.n = 0

\* try { return await fn(); } catch (err) {...}: the catch block runs
Caught(outcome) == outcome.kind = "raise"

\* variant: the test lets one more invocation through
GivesUpLate(attempt, tries) == attempt > tries

\* if (attempt >= tries) throw err
GivesUp(attempt, tries) == attempt >= tries

\* variant: the same delay before every retry
BackoffDelayFlat(baseTimeout, attempt) == baseTimeout

\* const delay = baseTimeout * attempt
BackoffDelay(baseTimeout, attempt) == baseTimeout * attempt

\* one turn of the while loop of _withRetry up to its next await: fn is
\* invoked; its value is returned, or the catch block counts the attempt
\* and rethrows the error or starts the timer
RetryInvoke ==
    /\ rtMode # "off"
    /\ rtPc = "call"
    /\ \E outcome \in FnOutcomes(rtMode, rtLimit, Len(rtCalls) + 1) :
        /\ rtCalls' = Append(rtCalls, outcome)
        /\ IF Caught(outcome)
           THEN /\ rtAttempt' = rtAttempt + 1
                /\ IF GivesUp(rtAttempt + 1, rtTries)
                   THEN /\ rtPc' = "raised"
                        /\ rtResult' = outcome
                        /\ UNCHANGED rtDelays
                   ELSE /\ rtPc' = "sleep"
                        /\ rtDelays' = Append(rtDelays,
                               BackoffDelay(rtBase, rtAttempt + 1))
                        /\ UNCHANGED rtResult
           ELSE /\ rtPc' = "returned"
                /\ rtResult' = outcome
                /\ UNCHANGED <<rtAttempt, rtDelays>>
    /\ UNCHANGED <<recVars, scVars, nVars, ioVars, txtVars, clrVars, rtMode, rtTries,
                   rtBase, rtSource, rtLimit, rtPipe, rtProps>>

\* the timer of `await new Promise(r => setTimeout(r, delay))` fires and
\* the loop test attempt < tries lets the next turn in
RetryWake ==
    /\ rtMode # "off"
    /\ rtPc = "sleep"
    /\ rtPc' = "call"
    /\ UNCHANGED <<recVars, scVars, nVars, ioVars, txtVars, clrVars, rtMode, rtTries,
                   rtBase, rtAttempt, rtCalls, rtDelays, rtResult, rtSource,
                   rtLimit, rtPipe, rtProps>>

\* the link of the fallback generators next to _withRetry: one search page
\* per source, the same for every record
SearchPageLinks ==
    <<"https://housing.com/in/buy/mumbai",
      "https://www.olx.in/items/q-property-mumbai",
      "https://www.magicbricks.com/property-for-sale/residential-real-estate?cityName=Mumbai">>

\* _generateHousingFallbackData / _generateOLXFallbackData /
\* _generateMagicBricksFallbackData next to _withRetry
generateFallbackDataSearchPage(s, city, lim) ==
    [i \in 1..lim |-> formatProperty(s,
        [title |-> "Fallback property", link |-> SearchPageLinks[s],
         origin |-> "synthetic"], city, i - 1)]

\* scrapeHousingCom / scrapeOLX / scrapeMagicBricks after
\* `await this._withRetry(() => this._scrape...(city, limit), 3, 8000)`:
\* an empty list is replaced by generated data, and so is, in the catch
\* block, an error raised by _withRetry
PipelineFinish ==
    /\ rtMode = "pipeline"
    /\ rtPc \in {"returned", "raised"}
    /\ rtPipe = "none"
    /\ IF rtPc = "raised"
       THEN /\ rtPipe' = "catch"
            /\ rtProps' = generateFallbackDataSearchPage(rtSource, TheCity, rtLimit)
       ELSE IF rtResult.n = 0
       THEN /\ rtPipe' = "synthetic"
            /\ rtProps' = generateFallbackDataSearchPage(rtSource, TheCity, rtLimit)
       ELSE /\ rtPipe' = "real"
            /\ rtProps' = realProperties(rtSource, TheCity, rtResult.n)
    /\ UNCHANGED <<recVars, scVars, nVars, ioVars, txtVars, clrVars, rtMode, rtTries,
                   rtBase, rtPc, rtAttempt, rtCalls, rtDelays, rtResult,
                   rtSource, rtLimit>>

\* ------------------------------------------------ overlapping reconcile runs
\* Two requests are served at once: each await of bulkCreateProperties is a
\* point where the other run may go on.
\* records the two runs carry: one valid listing, one the schema rejects
RacePool ==
    {[BaseRecord EXCEPT !.name = "Housing.com",
                        !.url = "https://housing.com/p/1"],
     [BaseRecord EXCEPT !.name = "Housing.com",
                        !.url = "https://magicbricks.com", !.size = 0]}

\* a run is called, whatever the other run is doing
RaceStart(r) ==
    /\ pc[r] = "idle"
    /\ \E b \in SeqOfMax(RacePool, MaxBatch) : bulkCreateProperties(r, b)
    /\ UNCHANGED <<store, faultsLeft, scVars, nVars, extVars>>

\* the loop moves on from a record whose insert was awaited
AdvanceAfterInsert(r, res) ==
    /\ results' = [results EXCEPT ![r] = res]
    /\ idx' = [idx EXCEPT ![r] = idx[r] + 1]
    /\ IF idx[r] = Len(batch[r])
       THEN /\ pc' = [pc EXCEPT ![r] = "done"]
            /\ ret' = [ret EXCEPT ![r] = BulkReturn(batch[r], res)]
       ELSE /\ pc' = [pc EXCEPT ![r] = "loop"]
            /\ UNCHANGED ret

\* await existsBySourceUrl answers and the record is validated; a new,
\* valid record goes on to await create
RaceCheck(r) ==
    /\ pc[r] = "loop"
    /\ LET p == batch[r][idx[r]]
           exists == existsBySourceUrl(store, p.url)
           error == createPropertySchema(p)
       IN
       \/ /\ faultsLeft > 0       \* existsBySourceUrl raises
          /\ faultsLeft' = faultsLeft - 1
          /\ faulted' = [faulted EXCEPT ![r] = TRUE]
          /\ RecordError(r, p, "Failed to check property existence")
       \/ /\ exists
          /\ Advance(r, [results[r] EXCEPT !.duplicates =
                 Append(@, [data |-> p,
                            reason |-> "Property with this source URL already exists"])])
          /\ UNCHANGED <<faultsLeft, faulted>>
       \/ /\ ~exists
          /\ error # ""
          /\ RecordError(r, p, error)
          /\ UNCHANGED <<faultsLeft, faulted>>
       \/ /\ ~exists
          /\ error = ""
          /\ pc' = [pc EXCEPT ![r] = "insert"]
          /\ UNCHANGED <<results, idx, ret, faultsLeft, faulted>>
    /\ UNCHANGED <<store, batch, store0, scVars, nVars, extVars>>

\* await PropertyRepository.create(value) answers
RaceInsert(r) ==
    /\ pc[r] = "insert"
    /\ LET p == batch[r][idx[r]] IN
       \/ /\ faultsLeft > 0       \* create raises
          /\ faultsLeft' = faultsLeft - 1
          /\ faulted' = [faulted EXCEPT ![r] = TRUE]
          /\ AdvanceAfterInsert(r, [results[r] EXCEPT !.errors =
                 Append(@, [data |-> p, error |-> "Failed to create property"])])
          /\ UNCHANGED store
       \/ /\ store' = create(store, p)
          /\ AdvanceAfterInsert(r, [results[r] EXCEPT !.created = Append(@, p)])
          /\ UNCHANGED <<faultsLeft, faulted>>
    /\ UNCHANGED <<batch, store0, scVars, nVars, extVars>>

\* ---------------------------------- scrapeAll and the enrichment service
\* One scrapeAll run as the enrichment service sees it.  A candidate is
\* named by its source and its place in the list its pipeline gives to
\* processWithAI; sent counts the requests made for it.
EnrichOff ==
    [pc |-> "off",
     n |-> [s \in SourceIds |-> 0],
     pos |-> [s \in SourceIds |-> 0],
     wait |-> [s \in SourceIds |-> FALSE],
     sent |-> [s \in SourceIds |-> <<>>],
     cpos |-> 0,
     cwait |-> FALSE,
     handed |-> 0]

\* allProperties of scrapeAll: the lists of the pipelines, in source order
Combined(n) == Flatten([s \in SourceIds |-> [i \in 1..n[s] |-> <<s, i>>]])

PipelineDone(s) == enrich.pos[s] = enrich.n[s] /\ ~enrich.wait[s]

\* scrapeAll starts the three pipelines; each has its candidates (real or
\* synthetic) when it reaches its call of processWithAI
ScrapeAllPipelines ==
    /\ enrich.pc = "off"
    /\ \E n \in [SourceIds -> 0..MaxCand] :
        enrich' = [EnrichOff EXCEPT
                      !.pc = "pipelines",
                      !.n = n,
                      !.sent = [s \in SourceIds |-> [i \in 1..n[s] |-> 0]]]
    /\ UNCHANGED <<recVars, scVars, nVars, txtVars, clrVars, rtVars,
                   fstream, br, rf>>

\* the loop of processWithAI inside the pipeline of source s sends the
\* request for its next candidate
PipelineSubmit(s) ==
    /\ enrich.pc = "pipelines"
    /\ ~enrich.wait[s]
    /\ enrich.pos[s] < enrich.n[s]
    /\ enrich' = [enrich EXCEPT !.sent[s][enrich.pos[s] + 1] = @ + 1,
                                !.wait[s] = TRUE]
    /\ UNCHANGED <<recVars, scVars, nVars, txtVars, clrVars, rtVars,
                   fstream, br, rf>>

\* the service answers (or fails): the loop goes on to the next candidate
PipelineReply(s) ==
    /\ enrich.pc = "pipelines"
    /\ enrich.wait[s]
    /\ enrich' = [enrich EXCEPT !.pos[s] = @ + 1, !.wait[s] = FALSE]
    /\ UNCHANGED <<recVars, scVars, nVars, txtVars, clrVars, rtVars,
                   fstream, br, rf>>

\* Promise.allSettled resolves and scrapeAll calls processWithAI on the
\* combined list
AllSettled ==
    /\ enrich.pc = "pipelines"
    /\ \A s \in SourceIds : PipelineDone(s)
    /\ enrich' = [enrich EXCEPT !.pc = "combined"]
    /\ UNCHANGED <<recVars, scVars, nVars, txtVars, clrVars, rtVars,
                   fstream, br, rf>>

\* the loop of that second processWithAI sends the request for the next
\* record of the combined list
CombinedSubmit ==
    /\ enrich.pc = "combined"
    /\ ~enrich.cwait
    /\ enrich.cpos < Len(Combined(enrich.n))
    /\ LET c == Combined(enrich.n)[enrich.cpos + 1] IN
       enrich' = [enrich EXCEPT !.sent[c[1]][c[2]] = @ + 1,
                                !.cwait = TRUE]
    /\ UNCHANGED <<recVars, scVars, nVars, txtVars, clrVars, rtVars,
                   fstream, br, rf>>

CombinedReply ==
    /\ enrich.pc = "combined"
    /\ enrich.cwait
    /\ enrich' = [enrich EXCEPT !.cpos = @ + 1, !.cwait = FALSE]
    /\ UNCHANGED <<recVars, scVars, nVars, txtVars, clrVars, rtVars,
                   fstream, br, rf>>

\* scrapeAll calls PropertyService.bulkCreateProperties with the result
HandOver ==
    /\ enrich.pc = "combined"
    /\ ~enrich.cwait
    /\ enrich.cpos = Len(Combined(enrich.n))
    /\ enrich' = [enrich EXCEPT !.pc = "reconciling", !.handed = @ + 1]
    /\ UNCHANGED <<recVars, scVars, nVars, txtVars, clrVars, rtVars,
                   fstream, br, rf>>

\* ---------------------------------------------------------------- fetchStream
\* fetchStream(url, byteLimit = 300 * 1024, timeout = 60000) of the scrape
\* helpers.  The promise it returns is settled by two listeners only: 'end'
\* resolves it with html, 'error' rejects it.
\*   pc: "off", "requesting" (await axios.get), "streaming", "destroyed"
\*       (stream.destroy() was called), "closed" ('close' was emitted),
\*       "resolved", "rejected"
FetchOff ==
    [pc |-> "off", bytes |-> 0, html |-> <<>>, endQueued |-> FALSE,
     result |-> <<>>]

byteLimit == 300 * 1024

\* chunks the response stream may deliver; a closing body tag may arrive
\* whole or split over two chunks
ChunkTexts == {"<p>", "</body>", "</BODY>", "</bo", "dy>"}
Chunks ==
    {[text |-> t, length |-> n] : t \in ChunkTexts, n \in {102400, 204800}}

\* /<\/body>/i.test(html) on the accumulated text
HasBodyEnd(html) ==
    \E i \in 1..Len(html) :
        \/ html[i] \in {"</body>", "</BODY>"}
        \/ i < Len(html) /\ html[i] = "</bo" /\ html[i + 1] = "dy>"

\* the condition under which the 'data' listener calls stream.destroy()
StopReading(bytes, html) == bytes >= byteLimit \/ HasBodyEnd(html)

\* After stream.destroy() nothing the listener did settles the promise.
\* 'end' is still delivered only if the stream had queued it before the
\* destroy (the body was complete); otherwise 'close' is all that follows.
SettledAfterStop(endQueued) == endQueued

FetchStreamCall ==
    /\ fstream.pc = "off"
    /\ fstream' = [FetchOff EXCEPT !.pc = "requesting"]
    /\ UNCHANGED <<recVars, scVars, nVars, txtVars, clrVars, rtVars,
                   enrich, br, rf>>

\* await axios.get(url, {responseType: 'stream'}) gives the stream, or
\* rejects (network error, timeout, error status)
AxiosResponds ==
    /\ fstream.pc = "requesting"
    /\ \E next \in {"streaming", "rejected"} :
        fstream' = [fstream EXCEPT !.pc = next]
    /\ UNCHANGED <<recVars, scVars, nVars, txtVars, clrVars, rtVars,
                   enrich, br, rf>>

\* stream.on('data', chunk => ...)
StreamData ==
    /\ fstream.pc = "streaming"
    /\ \E chunk \in Chunks, queued \in BOOLEAN :
        LET bytes == fstream.bytes + chunk.length
            html == Append(fstream.html, chunk.text)
        IN  fstream' =
              IF StopReading(bytes, html)
              THEN [fstream EXCEPT !.bytes = bytes, !.html = html,
                                   !.pc = "destroyed", !.endQueued = queued]
              ELSE [fstream EXCEPT !.bytes = bytes, !.html = html]
    /\ UNCHANGED <<recVars, scVars, nVars, txtVars, clrVars, rtVars,
                   enrich, br, rf>>

\* stream.on('end', () => resolve(html))
StreamEnd ==
    /\ \/ fstream.pc = "streaming"
       \/ fstream.pc = "destroyed" /\ SettledAfterStop(fstream.endQueued)
    /\ fstream' = [fstream EXCEPT !.pc = "resolved", !.result = fstream.html]
    /\ UNCHANGED <<recVars, scVars, nVars, txtVars, clrVars, rtVars,
                   enrich, br, rf>>

\* stream.on('error', reject)
StreamError ==
    /\ fstream.pc = "streaming"
    /\ fstream' = [fstream EXCEPT !.pc = "rejected"]
    /\ UNCHANGED <<recVars, scVars, nVars, txtVars, clrVars, rtVars,
                   enrich, br, rf>>

\* the destroyed stream emits 'close'; no listener is registered for it and
\* the promise stays as it is
StreamClose ==
    /\ fstream.pc = "destroyed"
    /\ fstream' = [fstream EXCEPT !.pc = "closed"]
    /\ UNCHANGED <<recVars, scVars, nVars, txtVars, clrVars, rtVars,
                   enrich, br, rf>>

\* -------------------------------------------------------- the shared browser
\* this.browser of the ScraperService singleton and the calls of
\* initBrowser and closeBrowser made by requests that are served at once.
\*   browser: 0 for null, else the instance this.browser refers to
\*   next: the instance the next puppeteer.launch will create
\*   launches: instances launched since the last closeBrowser
\*   epoch: closeBrowser calls completed so far
\*   call[c]: "idle", "launching" (awaiting puppeteer.launch), "returned"
\*   got[c], gotEpoch[c]: the instance returned to caller c, and when
\*   closing: the instance whose close() is awaited, 0 for none
Callers == 1..3

BrOff ==
    [browser |-> 0, next |-> 1, launches |-> 0, epoch |-> 0,
     call |-> [c \in Callers |-> "idle"],
     got |-> [c \in Callers |-> 0],
     gotEpoch |-> [c \in Callers |-> 0],
     closing |-> 0]

\* initBrowser up to its first await: the test of this.browser
InitBrowserCall(c) ==
    /\ br.call[c] = "idle"
    /\ br' = IF br.browser = 0
             THEN [br EXCEPT !.call[c] = "launching"]
             ELSE [br EXCEPT !.call[c] = "returned",
                             !.got[c] = br.browser,
                             !.gotEpoch[c] = br.epoch]
    /\ UNCHANGED <<recVars, scVars, nVars, txtVars, clrVars, rtVars,
                   enrich, fstream, rf>>

\* puppeteer.launch resolves: this.browser = <the new instance>; return
\* this.browser
LaunchResolves(c) ==
    /\ br.call[c] = "launching"
    /\ br' = [br EXCEPT !.browser = br.next,
                        !.next = @ + 1,
                        !.launches = @ + 1,
                        !.call[c] = "returned",
                        !.got[c] = br.next,
                        !.gotEpoch[c] = br.epoch]
    /\ UNCHANGED <<recVars, scVars, nVars, txtVars, clrVars, rtVars,
                   enrich, fstream, rf>>

\* closeBrowser up to its await: if (this.browser) await this.browser.close()
CloseBrowserCall ==
    /\ br.closing = 0
    /\ br.browser # 0
    /\ br' = [br EXCEPT !.closing = br.browser]
    /\ UNCHANGED <<recVars, scVars, nVars, txtVars, clrVars, rtVars,
                   enrich, fstream, rf>>

\* close() resolves: this.browser = null
CloseResolves ==
    /\ br.closing # 0
    /\ br' = [br EXCEPT !.browser = 0, !.closing = 0, !.launches = 0,
                        !.epoch = @ + 1]
    /\ UNCHANGED <<recVars, scVars, nVars, txtVars, clrVars, rtVars,
                   enrich, fstream, rf>>

\* ----------------------------------------------------------- rendered fetch
\* One call of _scrapeHousingWithPuppeteer(city, limit), in the service
\* ("primary") and in the service that wraps its scrapers in _withRetry
\* ("variant").
\*   pc: "off", "opened" (browser.newPage() gave the page), "navigating",
\*       "evaluating", "returned"
\*   nav[i]: page.goto of searchUrls[i]: "none" (never started), "pending",
\*       "loaded", "failed"
\*   navResult: "none", "loaded", "failed" (the function gave up on loading)
\*   open: pages this call has opened and not closed
\*   out: "none", "properties" (the mapped list), "empty" ([])
Impls == {"primary", "variant"}
UrlIds == 1..4

RfOff ==
    [impl |-> "primary", pc |-> "off",
     nav |-> [i \in UrlIds |-> "none"],
     navResult |-> "none", open |-> 0, out |-> "none"]

\* the outcomes of the evaluation step: a result, the 20 s timer of the
\* Promise.race (primary only), an error thrown in the page
EvalOutcomes(impl) ==
    IF impl = "primary" THEN {"ok", "timeout", "error"} ELSE {"ok", "error"}

\* the function is called; initBrowser and browser.newPage() give the page,
\* or one of them throws and the catch block returns []
RenderedFetchCall ==
    /\ rf.pc = "off"
    /\ \E impl \in Impls, opens \in BOOLEAN :
        rf' = IF opens
              THEN [RfOff EXCEPT !.impl = impl, !.pc = "opened", !.open = 1]
              ELSE [RfOff EXCEPT !.impl = impl, !.pc = "returned",
                                 !.out = "empty"]
    /\ UNCHANGED <<recVars, scVars, nVars, txtVars, clrVars, rtVars,
                   enrich, fstream, br>>

\* primary: await page.goto(searchUrls[0]); variant:
\* Promise.any(searchUrls.map(tryUrl)) calls page.goto for every URL at once
StartNavigation ==
    /\ rf.pc = "opened"
    /\ rf' = [rf EXCEPT
                !.pc = "navigating",
                !.nav = IF rf.impl = "primary"
                        THEN [i \in UrlIds |->
                                 IF i = 1 THEN "pending" ELSE "none"]
                        ELSE [i \in UrlIds |-> "pending"]]
    /\ UNCHANGED <<recVars, scVars, nVars, txtVars, clrVars, rtVars,
                   enrich, fstream, br>>

\* page.goto of URL i settles.  primary: a failure leaves through the catch
\* block.  variant: the first URL that loads resolves Promise.any, and it
\* rejects once every goto has failed; a goto that is still pending when
\* Promise.any has resolved settles later, unobserved.
GotoSettles(i) ==
    /\ rf.nav[i] = "pending"
    /\ \/ /\ rf.pc = "navigating"
          /\ \/ rf' = [rf EXCEPT !.nav[i] = "loaded", !.navResult = "loaded",
                                 !.pc = "evaluating"]
             \/ LET nav == [rf.nav EXCEPT ![i] = "failed"] IN
                rf' = IF \/ rf.impl = "primary"
                         \/ \A j \in UrlIds : nav[j] = "failed"
                      THEN [rf EXCEPT !.nav = nav, !.navResult = "failed",
                                      !.pc = "returned", !.out = "empty"]
                      ELSE [rf EXCEPT !.nav = nav]
       \/ /\ rf.pc \in {"evaluating", "returned"}
          /\ \E o \in {"loaded", "failed"} : rf' = [rf EXCEPT !.nav[i] = o]
    /\ UNCHANGED <<recVars, scVars, nVars, txtVars, clrVars, rtVars,
                   enrich, fstream, br>>

\* the wait and page.evaluate settle: with a result the page is closed and
\* the mapped list returned; a timeout or an error leaves through the
\* catch block, which returns [] and does not touch the page
EvaluateSettles ==
    /\ rf.pc = "evaluating"
    /\ \E o \in EvalOutcomes(rf.impl) :
        rf' = IF o = "ok"
              THEN [rf EXCEPT !.pc = "returned", !.open = @ - 1,
                              !.out = "properties"]
              ELSE [rf EXCEPT !.pc = "returned", !.out = "empty"]
    /\ UNCHANGED <<recVars, scVars, nVars, txtVars, clrVars, rtVars,
                   enrich, fstream, br>>

\* ---------------------------------------------------------- specifications
InitRec ==
    /\ batch = [r \in Runs |-> <<>>]
    /\ idx = [r \in Runs |-> 1]
    /\ pc = [r \in Runs |-> "idle"]
    /\ results = [r \in Runs |-> NoResults]
    /\ ret = [r \in Runs |-> NoStats]
    /\ store0 = [r \in Runs |-> <<>>]
    /\ faulted = [r \in Runs |-> FALSE]
    /\ faultsLeft = MaxFaults

InitScOff ==
    /\ scPc = "off"
    /\ limit = 0
    /\ settled = [s \in SourceIds |-> Pending]
    /\ acquired = [s \in SourceIds |-> [kind |-> "empty", n |-> 0]]
    /\ scraped = 0
    /\ scErrors = <<>>
    /\ scResult = NoResponse

InitNormOff ==
    /\ nIn = <<>>
    /\ nReplies = <<>>
    /\ nOut = <<>>

InitTxtOff ==
    /\ txt = <<>>
    /\ txtPrice = <<>>
    /\ txtBhk = <<>>
    /\ txtClean = <<>>
    /\ txtNum = <<>>

InitClrOff ==
    /\ clearResult = "none"
    /\ clrStore = <<>>

InitRtOff ==
    /\ rtMode = "off"
    /\ rtTries = 0
    /\ rtBase = 0
    /\ rtPc = "returned"
    /\ rtAttempt = 0
    /\ rtCalls = <<>>
    /\ rtDelays = <<>>
    /\ rtResult = Undefined
    /\ rtSource = 1
    /\ rtLimit = 0
    /\ rtPipe = "none"
    /\ rtProps = <<>>

InitIoOff ==
    /\ enrich = EnrichOff
    /\ fstream = FetchOff
    /\ br = BrOff
    /\ rf = RfOff

\* reconcile runs started from the bulk route, or one scrapeAll call
Init ==
    /\ store \in InitStores
    /\ InitRec
    /\ InitScOff
    /\ InitNormOff
    /\ InitTxtOff
    /\ InitClrOff
    /\ InitRtOff
    /\ InitIoOff

Next ==
    \/ \E r \in Runs : BulkStart(r)
    \/ \E r \in Runs : ReconcileRecord(r)
    \/ ScrapeAllStart
    \/ \E s \in SourceIds : SourceSettle(s)
    \/ Join
    \/ ScrapeReturn

Spec == Init /\ [][Next]_vars

\* processWithAI(rawProperties) on a list of candidates
InitNorm ==
    /\ store = <<>>
    /\ InitRec
    /\ InitScOff
    /\ nIn \in SeqOfMax(CandidatePool, MaxCand)
    /\ nReplies = <<>>
    /\ nOut = <<>>
    /\ InitTxtOff
    /\ InitClrOff
    /\ InitRtOff
    /\ InitIoOff

NextNorm == ProcessNext

SpecNorm == InitNorm /\ [][NextNorm]_vars

\* the extractors and cleaners applied to one text
InitText ==
    /\ store = <<>>
    /\ InitRec
    /\ InitScOff
    /\ InitNormOff
    /\ txt \in Texts
    /\ txtPrice = <<>>
    /\ txtBhk = <<>>
    /\ txtClean = <<>>
    /\ txtNum = <<>>
    /\ InitClrOff
    /\ InitRtOff
    /\ InitIoOff

NextText ==
    \/ ExtractPrice
    \/ ExtractBHK
    \/ CleanPrice
    \/ CleanNumber

SpecText == InitText /\ [][NextText]_vars

\* the clear operation, then reconcile runs from the bulk route
InitClear ==
    /\ store \in InitStores
    /\ InitRec
    /\ InitScOff
    /\ InitNormOff
    /\ InitTxtOff
    /\ InitClrOff
    /\ InitRtOff
    /\ InitIoOff

NextClear ==
    \/ ClearScrapedData
    \/ ClearScrapedDataVariant
    \/ \E r \in Runs : BulkAfterClear(r)
    \/ \E r \in Runs : ReconcileRecord(r)

SpecClear == InitClear /\ [][NextClear]_vars

\* _withRetry around any function, or a source pipeline around a scraper
InitRetry ==
    /\ store = <<>>
    /\ InitRec
    /\ InitScOff
    /\ InitNormOff
    /\ InitTxtOff
    /\ InitClrOff
    /\ rtMode \in {"fn", "pipeline"}
    /\ rtTries \in IF rtMode = "pipeline" THEN {3} ELSE 0..MaxTries
    /\ rtBase \in IF rtMode = "pipeline" THEN {8000} ELSE BaseTimeouts
    /\ rtPc = IF rtTries = 0 THEN "returned" ELSE "call"
    /\ rtAttempt = 0
    /\ rtCalls = <<>>
    /\ rtDelays = <<>>
    /\ rtResult = Undefined
    /\ rtSource \in IF rtMode = "pipeline" THEN SourceIds ELSE {1}
    /\ rtLimit \in 1..2
    /\ rtPipe = "none"
    /\ rtProps = <<>>
    /\ InitIoOff

NextRetry ==
    \/ RetryInvoke
    \/ RetryWake
    \/ PipelineFinish

SpecRetry == InitRetry /\ [][NextRetry]_vars

\* one scrapeAll run and its requests to the enrichment service
NextEnrich ==
    \/ ScrapeAllPipelines
    \/ \E s \in SourceIds : PipelineSubmit(s)
    \/ \E s \in SourceIds : PipelineReply(s)
    \/ AllSettled
    \/ CombinedSubmit
    \/ CombinedReply
    \/ HandOver

SpecEnrich == Init /\ [][NextEnrich]_vars

\* two reconcile runs that may overlap
NextRace ==
    \/ \E r \in Runs : RaceStart(r)
    \/ \E r \in Runs : RaceCheck(r)
    \/ \E r \in Runs : RaceInsert(r)

SpecRace == Init /\ [][NextRace]_vars

\* one call of fetchStream; the event loop delivers every pending event
NextFetch ==
    \/ FetchStreamCall
    \/ AxiosResponds
    \/ StreamData
    \/ StreamEnd
    \/ StreamError
    \/ StreamClose

SpecFetch == Init /\ [][NextFetch]_vars /\ WF_vars(NextFetch)

\* requests served at once call initBrowser, and closeBrowser is called
NextBrowser ==
    \/ \E c \in Callers : InitBrowserCall(c)
    \/ \E c \in Callers : LaunchResolves(c)
    \/ CloseBrowserCall
    \/ CloseResolves

SpecBrowser == Init /\ [][NextBrowser]_vars

\* one rendered fetch of Housing.com
NextRender ==
    \/ RenderedFetchCall
    \/ StartNavigation
    \/ \E i \in UrlIds : GotoSettles(i)
    \/ EvaluateSettles

SpecRender == Init /\ [][NextRender]_vars


\* ------------------------------------------------------------------ claims
HoldsUrl(st, u) == \E i \in 1..Len(st) : st[i].url = u

\* the same single schema-valid record reconciled by run 1 and then by
\* run 2, with the store answering every call
SameRecordTwice ==
    /\ scPc = "off"
    /\ pc[1] = "done" /\ pc[2] = "done"
    /\ Len(batch[1]) = 1 /\ batch[2] = batch[1]
    /\ createPropertySchema(batch[1][1]) = ""
    /\ ~faulted[1] /\ ~faulted[2]

CreatedThenDuplicate ==
    /\ ret[1].created = 1
    /\ ret[2].duplicates = 1 /\ ret[2].created = 0
    /\ CountFingerprint(store, batch[1][1]) = 1

C2_NaturalKey ==
    \A i, j \in 1..Len(store) :
        i # j => Fingerprint(store[i]) # Fingerprint(store[j])

\* a batch holding one fingerprint twice has been reconciled: one insert,
\* one duplicate
C2_Witness ==
    \E r \in Runs :
        /\ pc[r] = "done" /\ Len(batch[r]) >= 2
        /\ Fingerprint(batch[r][1]) = Fingerprint(batch[r][2])
        /\ Len(results[r].created) = 1
        /\ Len(results[r].duplicates) >= 1

\* C3 as stated: scrapeAll never raises, whatever the sources do and
\* whatever the limit is; it always returns a result.
C3_NeverRaises == scPc # "threw"

RejectedSources == {s \in SourceIds : settled[s].status = "rejected"}

CountByName(recs, nm) ==
    Cardinality({k \in 1..Len(recs) : recs[k].name = nm})

IsSourceError(e) == "source" \in DOMAIN e

\* C4: when exactly one of the three pipelines rejects, scrapeAll does not
\* raise, the list it reconciles holds every record of the other two
\* sources and none of the failed one, and its result has exactly one
\* per-source error entry, naming the failed source.
C4_OneSourceFails ==
    (scPc \in {"reconciling", "returned", "threw"}
     /\ Cardinality(RejectedSources) = 1) =>
        LET f == CHOOSE s \in RejectedSources : TRUE IN
        /\ scPc # "threw"
        /\ CountByName(batch[ScrapeRun], Sources[f]) = 0
        /\ \A s \in SourceIds \ {f} :
              /\ Len(settled[s].properties) >= 1
              /\ CountByName(batch[ScrapeRun], Sources[s])
                    = Len(settled[s].properties)
        /\ scPc = "returned" =>
              /\ Cardinality({k \in 1..Len(scResult.errors) :
                     /\ IsSourceError(scResult.errors[k])
                     /\ scResult.errors[k].source = Sources[f]}) = 1
              /\ Cardinality({k \in 1..Len(scResult.errors) :
                     IsSourceError(scResult.errors[k])}) = 1
              /\ scResult.stats.saved + scResult.stats.duplicates
                    + scResult.stats.errors = Len(batch[ScrapeRun])

C4_Witness ==
    /\ scPc = "returned"
    /\ Cardinality(RejectedSources) = 1
    /\ scResult.stats.scraped >= 2
    /\ scResult.stats.duplicates >= 1

\* how often record p was classified so far in run r
TimesClassified(r, p) ==
    Cardinality({k \in 1..Len(results[r].created) :
                    results[r].created[k] = p})
    + Cardinality({k \in 1..Len(results[r].duplicates) :
                    results[r].duplicates[k].data = p})
    + Cardinality({k \in 1..Len(results[r].errors) :
                    results[r].errors[k].data = p})

TimesGiven(r, p) ==
    Cardinality({k \in 1..(idx[r] - 1) : batch[r][k] = p})

\* C5: every record a reconcile run has gone through is in exactly one of
\* created, duplicates, errors; the returned counts add up to the number of
\* records passed in; and the scraped count of scrapeAll is that number.
C5_Partition ==
    /\ \A r \in Runs :
          /\ pc[r] \in {"loop", "done"} =>
                \A k \in 1..Len(batch[r]) :
                    TimesClassified(r, batch[r][k]) = TimesGiven(r, batch[r][k])
          /\ pc[r] = "done" =>
                /\ idx[r] = Len(batch[r]) + 1
                /\ ret[r].total = Len(batch[r])
                /\ ret[r].created + ret[r].duplicates + ret[r].errors
                      = Len(batch[r])
    /\ scPc = "returned" =>
          /\ scResult.stats.scraped = Len(batch[ScrapeRun])
          /\ scResult.stats.saved + scResult.stats.duplicates
                + scResult.stats.errors = scResult.stats.scraped

C5_Witness ==
    /\ scPc = "returned"
    /\ scResult.stats.scraped >= 3
    /\ scResult.stats.duplicates >= 1
    /\ scResult.stats.errors >= 1

\* C6: a source pipeline whose acquisition+extraction gave no candidate, or
\* raised, returns exactly `limit` records, all from the synthetic
\* generator, normalization included.
C6_FallbackComplete ==
    \A s \in SourceIds :
        (settled[s].status = "fulfilled"
         /\ acquired[s].kind \in {"empty", "raise"}) =>
            /\ Len(settled[s].properties) = Ceil(limit, 3)
            /\ \A k \in 1..Len(settled[s].properties) :
                  /\ settled[s].properties[k].origin = "synthetic"
                  /\ settled[s].properties[k].name = Sources[s]

C6_Witness ==
    /\ \E s \in SourceIds :
          /\ settled[s].status = "fulfilled"
          /\ acquired[s].kind = "empty"
          /\ Len(settled[s].properties) = 2
    /\ \E s \in SourceIds :
          /\ settled[s].status = "fulfilled"
          /\ acquired[s].kind = "raise"
          /\ Len(settled[s].properties) = 2

C7_State ==
    \A r \in Runs :
        /\ pc[r] = "threw" => batch[r] = <<>>
        /\ pc[r] = "done" => idx[r] = Len(batch[r]) + 1
        /\ \A k \in 1..Len(results[r].created) :
              \E i \in 1..Len(store) : store[i] = results[r].created[k]

C7_Step ==
    \A r \in Runs :
        (pc[r] = "loop" /\ Len(results'[r].errors) > Len(results[r].errors)) =>
            /\ Len(results'[r].errors) = Len(results[r].errors) + 1
            /\ results'[r].errors[Len(results'[r].errors)].data
                  = batch[r][idx[r]]
            /\ results'[r].errors[Len(results'[r].errors)].error # ""
            /\ store' = store
            /\ results'[r].created = results[r].created
            /\ idx'[r] = idx[r] + 1
            /\ pc'[r] = IF idx[r] < Len(batch[r]) THEN "loop" ELSE "done"

\* C7: a record that fails (schema violation, existence check or insert
\* raising) adds one error entry with its reason and nothing else: the loop
\* goes on to the next record, a run only throws on an empty list, and
\* every record reported as created is in the store.
C7_Independent == []C7_State /\ [][C7_Step]_vars

\* a run whose first record failed and whose second record was created
C7_Witness ==
    \E r \in Runs :
        /\ pc[r] = "done" /\ Len(batch[r]) >= 2
        /\ Len(results[r].errors) >= 1
        /\ results[r].errors[1].data = batch[r][1]
        /\ Len(results[r].created) >= 1
        /\ results[r].created[1] = batch[r][2]

\* a turn of the loop in which the store answered
Classified(r) ==
    /\ pc[r] = "loop"
    /\ idx'[r] = idx[r] + 1
    /\ faultsLeft' = faultsLeft

ClassifiedDuplicate(r) ==
    Len(results'[r].duplicates) = Len(results[r].duplicates) + 1

C9_Provenance ==
    \A i \in 1..Len(nOut) :
        /\ nOut[i].name = nIn[i].name
        /\ nOut[i].url = nIn[i].url
        /\ nOut[i].scrapedAt = nIn[i].scrapedAt

\* a candidate was normalized with a parsed reply that names a source
C9_Witness ==
    \E i \in 1..Len(nOut) :
        /\ nReplies[i].kind = "ok"
        /\ nReplies[i].data.srcName # ""
        /\ nReplies[i].data.srcUrl # nIn[i].url
        /\ nOut[i].aiProcessed = "true"

\* C10 as stated: when the service call fails or the reply does not parse,
\* the emitted record has aiProcessed = false and confidence 0.3; and
\* aiProcessed = true only comes with a parsed reply.
C10_FallbackMarked ==
    \A i \in 1..Len(nOut) :
        /\ nReplies[i].kind # "ok" =>
              (nOut[i].aiProcessed = "false" /\ nOut[i].confidence = 30)
        /\ nOut[i].aiProcessed = "true" => nReplies[i].kind = "ok"

\* the number a price text starts with once the currency sign and the
\* commas are gone (whole part, first digit of the fraction), and what
\* follows it, lower-cased and without blanks
LeadingNumber(t) ==
    LET s == SelectSeq(t, LAMBDA c : c \notin {Rupee, ","})
        e == RunEnd(s, 1, DigitSet)
        hasFraction == e + 2 <= Len(s) /\ s[e + 1] = "." /\ s[e + 2] \in DigitSet
        f == IF hasFraction THEN RunEnd(s, e + 2, DigitSet) ELSE e
    IN  [found |-> e >= 1,
         whole |-> DigitsValue(SubSeq(s, 1, e)),
         tenths |-> IF hasFraction THEN DigitValue(s[e + 2]) ELSE 0,
         unit |-> SelectSeq(toLowerCase(SubSeq(s, f + 1, Len(s))),
                            LAMBDA c : c # " ")]

\* 10,000,000 for a crore marker, 100,000 for a lakh marker ("L" included),
\* 1,000 for a thousand marker, 1 otherwise
UnitMultiplier(unit) ==
    IF startsWithAt(unit, 1, <<"c", "r">>) THEN 10000000
    ELSE IF startsWithAt(unit, 1, <<"l">>) THEN 100000
    ELSE IF startsWithAt(unit, 1, <<"k">>) THEN 1000
    ELSE 1

\* C11 as stated: the parsed price is the leading number of the text,
\* fraction included, times 10,000,000 / 100,000 / 1,000 / 1 by its unit;
\* "Rs 1.2 Cr" gives 12000000, "50 lakhs" 5000000, "25L" 2500000 and
\* "5000000" 5000000 (Rs: the rupee sign).
C11_AsStated ==
    (txtPrice # <<>> /\ LeadingNumber(txt).found) =>
        LET n == LeadingNumber(txt)
            m == UnitMultiplier(n.unit)
            price == txtPrice[1]
        IN  /\ ~price.random
            /\ IF m = 1 THEN price.value * 10 = n.whole * 10 + n.tenths
               ELSE price.value = n.whole * m + n.tenths * (m \div 10)
            /\ txt = <<Rupee, "1", ".", "2", " ", "C", "r">>
                  => price.value = 12000000
            /\ txt = <<"5", "0", " ", "l", "a", "k", "h", "s">>
                  => price.value = 5000000
            /\ txt = <<"2", "5", "L">> => price.value = 2500000
            /\ txt = <<"5", "0", "0", "0", "0", "0", "0">>
                  => price.value = 5000000

\* the bedroom count of a text: <<n>> for the first integer that a
\* BHK/bedroom/bed marker follows, <<>> when there is none
BedroomCount(text) ==
    LET starts == {i \in 1..Len(text) : BhkMatchAt(text, i)} IN
    IF starts = {} THEN <<>>
    ELSE LET i == CHOOSE k \in starts : \A m \in starts : k <= m
         IN  <<DigitsValue(SubSeq(text, i, RunEnd(text, i, DigitSet)))>>

\* C12 as stated: the bedroom count is the first integer immediately
\* followed by a BHK/bedroom/bed marker, and it is absent when the text has
\* no such marker or is empty; no value is invented.
C12_AsStated ==
    txtBhk # <<>> =>
        /\ BedroomCount(txt) # <<>>
        /\ txtBhk = BedroomCount(txt)

\* C13 as stated: for a totalLimit of 1 or more the limits of the three
\* sources sum to totalLimit, so the scraped count never exceeds totalLimit
\* and equals it when every source yields exactly its share.
C13_EvenSplit ==
    (scPc \in {"reconciling", "returned"} /\ limit >= 1) =>
        /\ 3 * Ceil(limit, 3) = limit
        /\ scraped <= limit
        /\ (\A s \in SourceIds :
               /\ settled[s].status = "fulfilled"
               /\ Len(settled[s].properties) = Ceil(limit, 3))
              => scraped = limit

\* C14 as stated: once the clear operation has reported success the store
\* holds no record, and the first record reconciled afterwards is never
\* classified as duplicate.
C14_ClearEmpties ==
    clearResult = "success" =>
        /\ clrStore = <<>>
        /\ (pc[1] \in {"loop", "done"} /\ idx[1] = 2)
              => results[1].duplicates = <<>>

\* the records of a batch that the synthetic generators made
SyntheticOnly(b) == \A k \in 1..Len(b) : b[k].origin = "synthetic"

\* C15 as stated: the synthetic records of one source have pairwise distinct
\* source URLs, and a batch of synthetic records only, reconciled against an
\* empty store that answers every call, is all created, none duplicate.
C15_SyntheticDistinct ==
    scPc \in {"reconciling", "returned"} =>
        /\ \A i, j \in 1..Len(batch[ScrapeRun]) :
              (/\ i # j
               /\ batch[ScrapeRun][i].origin = "synthetic"
               /\ batch[ScrapeRun][j].origin = "synthetic"
               /\ batch[ScrapeRun][i].name = batch[ScrapeRun][j].name)
                  => batch[ScrapeRun][i].url # batch[ScrapeRun][j].url
        /\ (/\ pc[ScrapeRun] = "done"
            /\ SyntheticOnly(batch[ScrapeRun])
            /\ store0[ScrapeRun] = <<>>
            /\ ~faulted[ScrapeRun])
              => /\ ret[ScrapeRun].created = Len(batch[ScrapeRun])
                 /\ ret[ScrapeRun].duplicates = 0

\* C16 as stated: a source pipeline whose acquisition failed on the network
\* substitutes the synthetic generator only after maxAttempts (3) failed
\* attempts.
C16_FetchRetried ==
    (/\ rtMode = "pipeline"
     /\ rtPipe \in {"synthetic", "catch"}
     /\ rtCalls[Len(rtCalls)].net = "fail")
        => /\ Len(rtCalls) = rtTries
           /\ \A k \in 1..Len(rtCalls) : rtCalls[k].net = "fail"

\* the first invocation of fn completed without raising and gave no candidate
EmptyFirst ==
    /\ rtMode # "off"
    /\ Len(rtCalls) >= 1
    /\ rtCalls[1].kind = "value"
    /\ rtCalls[1].n = 0

C17_State ==
    EmptyFirst =>
        /\ Len(rtCalls) = 1
        /\ rtDelays = <<>>
        /\ rtPc = "returned"
        /\ rtResult = rtCalls[1]
        /\ rtPipe # "none" =>
              /\ rtPipe = "synthetic"
              /\ Len(rtProps) = rtLimit
              /\ SyntheticOnly(rtProps)

C17_Step ==
    (EmptyFirst /\ rtMode = "pipeline" /\ rtPipe = "none") =>
        /\ rtPipe' = "synthetic"
        /\ rtCalls' = rtCalls
        /\ rtDelays' = rtDelays

\* C17: when fn completes without raising and yields no candidate,
\* _withRetry has invoked it exactly once, has taken no delay and returns,
\* and the next step of the pipeline is the synthetic generator.
C17_EmptyNotRetried == []C17_State /\ [][C17_Step]_vars

C17_Witness ==
    /\ rtMode = "pipeline"
    /\ rtPipe = "synthetic"
    /\ rtCalls[1].net = "empty"
    /\ Len(rtCalls) = 1
    /\ Len(rtProps) = 2

C18_State ==
    (rtMode # "off" /\ rtTries >= 1) =>
        /\ Len(rtCalls) <= rtTries
        /\ \A k \in 1..(Len(rtCalls) - 1) : rtCalls[k].kind = "raise"
        /\ rtPc = "returned" =>
              /\ Len(rtCalls) >= 1
              /\ rtCalls[Len(rtCalls)].kind = "value"
              /\ rtResult = rtCalls[Len(rtCalls)]
        /\ rtPc = "raised" =>
              /\ Len(rtCalls) = rtTries
              /\ rtCalls[rtTries].kind = "raise"
              /\ rtResult = rtCalls[rtTries]
              /\ rtResult.err = rtTries
              /\ Len(rtDelays) = rtTries - 1

C18_Step ==
    rtPc \in {"returned", "raised"} =>
        /\ rtCalls' = rtCalls
        /\ rtDelays' = rtDelays
        /\ rtResult' = rtResult

\* C18: for tries >= 1, _withRetry invokes fn at most tries times; it
\* returns the value of the first invocation that did not raise and invokes
\* fn no more; when every invocation raised it raises the error of the
\* last one, with no delay taken after it.
C18_BoundedRetry == []C18_State /\ [][C18_Step]_vars

C18_Witness ==
    /\ rtMode = "fn"
    /\ rtTries = 3
    /\ rtPc = "raised"
    /\ rtResult.err = 3
    /\ Len(rtDelays) = 2

C20_Clamp ==
    \A i \in 1..Len(nOut) :
        nReplies[i].kind = "ok" =>
            nOut[i].confidence =
                IF nReplies[i].data.confidence = <<>> THEN 50
                ELSE Min(100, Max(10, nReplies[i].data.confidence[1]))

\* C21 as stated, on the title and the city: with a parsed reply the
\* normalized record has the reply's value when the reply has the field,
\* the candidate's value when the reply lacks it, and a placeholder only
\* when both lack it.
C21_AsStated ==
    \A i \in 1..Len(nOut) :
        nReplies[i].kind = "ok" =>
            /\ nOut[i].title =
                 IF nReplies[i].data.title # "" THEN nReplies[i].data.title
                 ELSE IF nIn[i].title # "" THEN nIn[i].title
                 ELSE "Unknown Property"
            /\ nOut[i].city =
                 IF nReplies[i].data.city # "" THEN nReplies[i].data.city
                 ELSE IF nIn[i].city # "" THEN nIn[i].city
                 ELSE "Unknown City"

\* C22 as stated: when the reply holds no JSON object or does not parse,
\* the emitted record has the candidate's title and city whenever the
\* candidate has them.
C22_AsStated ==
    \A i \in 1..Len(nOut) :
        nReplies[i].kind \in {"nojson", "badjson"} =>
            /\ nIn[i].title # "" => nOut[i].title = nIn[i].title
            /\ nIn[i].city # "" => nOut[i].city = nIn[i].city

\* C23 as stated: every record that processWithAI emits in a scrapeAll run
\* passes the schema validation of the reconcile run, so no entry of the
\* run's error list is a record the schema rejects.
C23_AsStated ==
    scPc \in {"reconciling", "returned"} =>
        /\ \A k \in 1..Len(batch[ScrapeRun]) :
              createPropertySchema(batch[ScrapeRun][k]) = ""
        /\ \A k \in 1..Len(results[ScrapeRun].errors) :
              createPropertySchema(results[ScrapeRun].errors[k].data) = ""

\* C25: ingestion is insert-only.  No step changes or removes a document
\* the store already holds; the store changes only when a reconcile run
\* classifies the record at hand as created, and then by appending that
\* record; a step that classifies a record as duplicate or error, and any
\* step of acquisition, extraction or normalization (scrapeAll before its
\* reconcile run, processWithAI), leaves the store as it is.
C25_Step ==
    /\ Len(store') >= Len(store)
    /\ \A i \in 1..Len(store) : store'[i] = store[i]
    /\ store' # store =>
          \E r \in Runs :
              /\ pc[r] = "loop"
              /\ store' = Append(store, batch[r][idx[r]])
              /\ results'[r].created =
                     Append(results[r].created, batch[r][idx[r]])
              /\ results'[r].duplicates = results[r].duplicates
              /\ results'[r].errors = results[r].errors
    /\ (\E r \in Runs :
           \/ Len(results'[r].duplicates) > Len(results[r].duplicates)
           \/ Len(results'[r].errors) > Len(results[r].errors))
          => store' = store
    /\ (scPc \in {"off", "running"} /\ scPc' # "off") => store' = store
    /\ (settled' # settled \/ nOut' # nOut) => store' = store

\* C25: every step of a behaviour is insert-only in the sense of C25_Step
C25_InsertOnly == [][C25_Step]_vars

\* a reconcile run that began on a non-empty store has created one record
\* and found another one a duplicate, and the documents it began with are
\* still the first ones of the store
C25_Witness ==
    \E r \in Runs :
        /\ pc[r] = "done"
        /\ Len(store0[r]) > 0
        /\ Len(results[r].created) > 0
        /\ Len(results[r].duplicates) > 0
        /\ Len(store) = Len(store0[r]) + Len(results[r].created)

\* C24 as stated: in one scrapeAll run no candidate is submitted to the
\* enrichment service more than once, and each has been submitted exactly
\* once when the combined list is handed over; a source's candidates are
\* submitted one at a time (a request goes out only when the one before it
\* is answered) and in extraction order; the reconciler is called once.
C24_AsStated ==
    /\ \A s \in SourceIds : \A i \in 1..enrich.n[s] :
          /\ enrich.sent[s][i] <= 1
          /\ enrich.pc = "reconciling" => enrich.sent[s][i] = 1
          /\ (i > 1 /\ enrich.sent[s][i] > 0) => enrich.sent[s][i - 1] > 0
          /\ (enrich.wait[s] /\ i > enrich.pos[s] + 1) =>
                enrich.sent[s][i] = 0
    /\ enrich.handed <= 1
    /\ enrich.pc = "reconciling" => enrich.handed = 1

\* C26: nothing rejects the insert of a run whose existence check has
\* passed.  Once a run awaits create for a record, the step that ends the
\* await appends the record to the store whatever the store holds by then
\* (also a document of the same source.name and source.url, put there by
\* the other run in the meantime), unless the store operation itself
\* raises.  Two overlapping runs can therefore leave two documents of one
\* fingerprint (C26_Witness).
C26_Step ==
    \A r \in Runs :
        (pc[r] = "insert" /\ pc'[r] # "insert") =>
            \/ /\ store' = Append(store, batch[r][idx[r]])
               /\ results'[r].created =
                      Append(results[r].created, batch[r][idx[r]])
            \/ /\ faultsLeft' < faultsLeft
               /\ store' = store

\* C26: every step that ends an awaited insert appends (C26_Step)
C26_Unguarded == [][C26_Step]_vars

\* both runs are done, each has created a record, the two records have one
\* fingerprint, neither was in the store before, and the store holds two
\* documents of that fingerprint
C26_Witness ==
    /\ pc[1] = "done" /\ pc[2] = "done"
    /\ \E i \in 1..Len(results[1].created),
          j \in 1..Len(results[2].created) :
        LET p == results[1].created[i]
            q == results[2].created[j]
        IN  /\ Fingerprint(p) = Fingerprint(q)
            /\ ~HoldsFingerprint(store0[1], p)
            /\ ~HoldsFingerprint(store0[2], p)
            /\ CountFingerprint(store, p) = 2

\* C27 as stated: fetchStream reads no further once the bytes reach the cap
\* or the text holds a closing body tag, and from then on it eventually
\* returns the html accumulated so far; it also returns when the body ends
\* before either condition.
C27_AsStated ==
    /\ [](fstream.pc = "streaming" =>
             ~StopReading(fstream.bytes, fstream.html))
    /\ [](fstream.pc = "destroyed" =>
             <>(fstream.pc = "resolved" /\ fstream.result = fstream.html))

\* C29 as stated: whatever the interleaving of the initBrowser calls, at
\* most one browser is launched between two closeBrowser calls, and the
\* callers that returned between the same two closeBrowser calls hold the
\* same instance.
C29_AsStated ==
    /\ br.launches <= 1
    /\ \A c, d \in Callers :
          (/\ br.call[c] = "returned"
           /\ br.call[d] = "returned"
           /\ br.gotEpoch[c] = br.gotEpoch[d]) => br.got[c] = br.got[d]

\* C28 as stated: the candidate URLs are tried one after another in list
\* order; navigation to URL i+1 starts only after navigation to URL i has
\* failed; the fetch stops at the first URL that loads; and it gives up on
\* loading only when every candidate URL has failed.
C28_AsStated ==
    /\ \A i \in UrlIds :
          (i > 1 /\ rf.nav[i] # "none") => rf.nav[i - 1] = "failed"
    /\ rf.navResult = "loaded" =>
          \E i \in UrlIds :
              /\ rf.nav[i] = "loaded"
              /\ \A j \in UrlIds : j > i => rf.nav[j] = "none"
    /\ rf.navResult = "failed" => \A i \in UrlIds : rf.nav[i] = "failed"

\* C30 as stated: when the rendered fetch has returned, on the success path
\* and on every failure path, the page it opened is closed: the number of
\* open pages is back at its value before the call.
C30_AsStated == rf.pc = "returned" => rf.open = 0

====
